---------------------------- MODULE Spec2Model ----------------------------
(***************************************************************************)
(* Oracle Trader: the profit-distribution state machine of                 *)
(* finance_manager.py and the champion/challenger tournament of refiner.py *)
(* (and its sqlite twin in trader.py).                                     *)
(*                                                                         *)
(* Money is in whole dollars (Python floats whose values are integers      *)
(* here), the key/value store holds strings (or no row), and every         *)
(* database or exchange call of check_and_process_withdrawal is one step,  *)
(* which may raise instead of returning.                                   *)
(*                                                                         *)
(* Further components, each with a specification of its own: the signal    *)
(* generator of strategy.py and backtest_strategy on price frames          *)
(* (SpecBacktest), run_shadow_simulation member by member (SpecShadow),    *)
(* and the main loop of trader.py with the dashboard's force-refinement    *)
(* route (SpecTrader).                                                     *)
(***************************************************************************)
EXTENDS Integers, Sequences, FiniteSets, TLC

(***************************************************************************)
(* Bounds of the model.                                                    *)
(***************************************************************************)
\* invocations of check_and_process_withdrawal in one behaviour
MaxInvocations == 3
\* calendar days 1..MaxDate (day 1 is the first of a month)
MaxDate == 15
\* steps of the account value above its lowest level, in units of AccountStep
MaxAccountSteps == 2

\* runs of find_new_champion in one behaviour, after those that built the
\* store the behaviour starts from
MaxTournaments == 2
\* a second and later run of a behaviour starts from a table of at most
\* MaxDeepRows rows
MaxDeepRows == 1
\* the stores a behaviour may start from: those after 0..MaxSeedRuns runs
MaxSeedRuns == 6

\* periods of a price frame
MaxLen == 4

\* cycles of the main loop of trader.py
MaxCycles == 9

(***************************************************************************)
(* Program constants.                                                      *)
(***************************************************************************)
\* PROFITS_WITHDRAWAL_PERCENTAGE = 0.50, written in percent
PROFITS_WITHDRAWAL_PERCENTAGE == 50
WITHDRAWAL_DAYS == {1, 15}
DEFAULT_WITHDRAWAL_CURRENCY == "btc"
NUM_COUNCIL_MEMBERS == 5

\* The account values the exchange may report: 10000, 12000, ...
AccountValues == {10000 + 2000 * i : i \in 0..MaxAccountSteps}

(***************************************************************************)
(* Values of the key/value store.  A row holds a string; None is what      *)
(* _get_finance_value returns for a missing row.  str(float) and float(str)*)
(* are inverse on Python floats, str(date) is the ISO date.                *)
(***************************************************************************)
None == <<>>
StrOfFloat(x) == <<"float", x>>
FloatOfStr(s) == s[2]
StrOfText(t) == <<"text", t>>
TextOfStr(s) == s[2]
DayOfMonth(d) == ((d - 1) % 31) + 1
MonthOf(d) == ((d - 1) \div 31) + 1
\* str(date.today()): "YYYY-MM-DD", here <<"date", month, day of month>>
StrOfDate(d) == <<"date", MonthOf(d), DayOfMonth(d)>>
\* Python truthiness of a stored value: None and the empty string are false
Truthy(v) == v # None /\ v # StrOfText("")

Keys == {"high_water_mark", "last_withdrawal_check",
         "pending_withdrawal_amount_usd", "pending_withdrawal_currency",
         "user_withdrawal_address", "user_withdrawal_currency",
         "total_tax_provision", "force_refinement"}

\* the scheduler processes; Spec runs one of them
Schedulers == {1, 2}

VARIABLES
    kv,           \* key_value_store: key -> stored string or None
    events,       \* events table: the number of rows of each status
    withdrawals,  \* calls of _execute_withdrawal that went through, in order
    clock,        \* the calendar day date.today() returns
    pc,           \* each scheduler's position in check_and_process_withdrawal
    loc,          \* each scheduler's local variables
    hist,         \* history of the invocations (observation only)
    configurations, \* the configurations table, in insertion order
    tour,         \* what the last tournament or nomination returned
    bt,           \* a call of backtest_strategy on a price frame
    run,          \* a call of run_shadow_simulation, member by member
    sched         \* the main loop of trader.py

vars == <<kv, events, withdrawals, clock, pc, loc, hist, configurations, tour,
          bt, run, sched>>
finVars == <<kv, events, withdrawals, clock, pc, loc, hist>>
tourVars == <<configurations, tour>>
restVars == <<bt, run, sched>>
\* a component that takes no part in the behaviours of a specification
Idle == <<"idle">>
RestIdle == bt = Idle /\ run = Idle /\ sched = Idle


(***************************************************************************)
(* Local variables of one invocation, and the history the properties read. *)
(***************************************************************************)
NoLocals ==
    [pending_usd_str |-> None, pending_usd |-> 0, withdrawal_address |-> None,
     currency |-> None, price |-> 0, today |-> 0, last_check_date_str |-> None,
     account_value |-> 0, high_water_mark |-> 0, withdrawal_amount_usd |-> 0]

NoHistory ==
    [inv |-> 0,            \* invocations started
     outcome |-> "none",   \* of the last invocation: running, returned, failed
                           \* (a call raised), crashed (the code itself raised)
     at |-> "none",        \* the line the last invocation returned or raised at
     raised |-> 0,         \* invocations ended by an exception
     kv0 |-> [k \in Keys |-> None],  \* the store when the invocation started
     drainSaw |-> "none",  \* what process_pending_withdrawal found
     drainExecs |-> 0,     \* withdrawals it executed in this invocation
     drainLogged |-> FALSE,
     recognized |-> 0,     \* writes of high_water_mark
     recognizedSum |-> 0,  \* sum of the profits of those writes
     firstHwm |-> 0,       \* high_water_mark read at the first of them
     recognitions |-> {},  \* <<inv, day>>: wrote HWM and executed or pended
     stamped |-> {},       \* <<inv, day>>: wrote last_withdrawal_check
     unexecutedShares |-> 0,  \* pended and not yet executed, in dollars
     pendExecs |-> 0,      \* executions by process_pending_withdrawal of the
                           \* amount last written at line 189
     concurrent |-> FALSE] \* an invocation started while another was running

\* _get_finance_value(key, default)
GetFinanceValueOrZero(key, default) ==
    IF kv[key] # None THEN kv[key]
    ELSE IF default = None THEN None ELSE StrOfFloat(0)
GetFinanceValue(key, default) == IF kv[key] # None THEN kv[key] ELSE default
\* _set_finance_value(key, value) stores str(value)
SetFinanceValue(store, key, str) == [store EXCEPT ![key] = str]
\* _clear_finance_value(key)
ClearNothing(store, key) == store
ClearFinanceValue(store, key) == [store EXCEPT ![key] = None]
\* the status texts of the FINANCE events finance_manager.py logs and of
\* the REFINER_STATUS events refiner.py logs
Statuses == {"Executed pending withdrawal.",
             "Scheduled new withdrawal check started.",
             "Profit withdrawal processed.",
             "Withdrawal pended (address missing).",
             "Check complete. No new profit above HWM.",
             "Refinement process started.",
             "Refinement process finished."}
\* _log_finance_event(content): one more row of type FINANCE
LogFinanceEvent(log, status) == [log EXCEPT ![status] = @ + 1]
\* _log_refiner_event('REFINER_STATUS', content)
LogRefinerEvent(log, status) == [log EXCEPT ![status] = @ + 1]

\* _get_current_asset_price: None has no .lower(), so the call raises;
\* otherwise the placeholder's price (its random jitter is left out: no
\* property reads the price)
AssetPriceRaises(symbol) == symbol = None
AssetPrices(symbol) ==
    IF TextOfStr(symbol) = "btc" THEN {65000}
    ELSE IF TextOfStr(symbol) = "eth" THEN {3500}
    ELSE {1}
\* pending_usd / price, kept as the exact quotient
AmountInCrypto(usd, price) == <<usd, price>>
\* _execute_withdrawal(amount_crypto, currency, address)
ExecuteWithdrawal(log, amount, currency, address) ==
    Append(log, [amount_crypto |-> amount, currency |-> currency,
                 address |-> address])

\* line 152: today.day not in WITHDRAWAL_DAYS
ScheduledEveryDay(today) == FALSE
NotScheduledDay(today) == DayOfMonth(today) \notin WITHDRAWAL_DAYS
\* line 156: last_check_date_str == str(today)
AlreadyCheckedNever(last, today) == FALSE
AlreadyCheckedToday(last, today) == last = StrOfDate(today)
\* line 166: account_value > high_water_mark
NewProfitOrEqual(account_value, high_water_mark) == account_value >= high_water_mark
NewProfitAlways(account_value, high_water_mark) == account_value # high_water_mark
NewProfit(account_value, high_water_mark) == account_value > high_water_mark
\* line 168: profit * PROFITS_WITHDRAWAL_PERCENTAGE
WithdrawalAmountUsd(profit) == (profit * PROFITS_WITHDRAWAL_PERCENTAGE) \div 100
\* line 175: the value written to high_water_mark
HwmKept(account_value, high_water_mark) == high_water_mark
NewHighWaterMark(account_value, high_water_mark) == account_value

(***************************************************************************)
(* Steps of one invocation.  Labels are line numbers of finance_manager.py:*)
(* dNNN in process_pending_withdrawal, cNNN in check_and_process_withdrawal*)
(***************************************************************************)
Goto(p, label) == pc' = [pc EXCEPT ![p] = label]
SetLoc(p, name, value) == loc' = [loc EXCEPT ![p][name] = value]
\* the invocation returns at line `label`
Return(p, label, h) ==
    /\ pc' = [pc EXCEPT ![p] = "idle"]
    /\ loc' = [loc EXCEPT ![p] = NoLocals]
    /\ hist' = [h EXCEPT !.outcome = "returned", !.at = label]
\* an exception leaves check_and_process_withdrawal at line pc[p]
Abort(p, how) ==
    /\ pc' = [pc EXCEPT ![p] = "idle"]
    /\ loc' = [loc EXCEPT ![p] = NoLocals]
    /\ hist' = [hist EXCEPT !.outcome = how, !.at = pc[p],
                            !.raised = hist.raised + 1]

\* the lines that call the database or the exchange
IOLabels == {"d115", "d119", "d125", "d126", "d130", "d132", "d139", "d140",
             "c155", "c160", "c162", "c164", "c171", "c172", "c175", "c179",
             "c181", "c182", "c189", "c190", "c192", "c198", "c201"}

\* trader.py calls check_and_process_withdrawal (line 142)
Invoke(p) ==
    /\ pc[p] = "idle"
    /\ hist.inv < MaxInvocations
    /\ Goto(p, "d115")
    /\ hist' = [hist EXCEPT !.inv = hist.inv + 1, !.outcome = "running",
                            !.at = "none", !.kv0 = kv, !.drainSaw = "none",
                            !.drainExecs = 0, !.drainLogged = FALSE,
                            !.concurrent =
                                @ \/ \E q \in Schedulers \ {p} : pc[q] # "idle"]
    /\ UNCHANGED <<tourVars, restVars, kv, events, withdrawals, clock, loc>>

\* a database or exchange call raises; nothing catches it
Raise(p) ==
    /\ pc[p] \in IOLabels
    /\ Abort(p, "failed")
    /\ UNCHANGED <<tourVars, restVars, kv, events, withdrawals, clock>>

\* lines 115-117
D115(p) ==
    /\ pc[p] = "d115"
    /\ LET s == GetFinanceValue("pending_withdrawal_amount_usd", None) IN
       IF ~Truthy(s)
       THEN /\ Goto(p, "c151")
            /\ hist' = [hist EXCEPT !.drainSaw = "nopending"]
            /\ UNCHANGED loc
       ELSE /\ Goto(p, "d119")
            /\ SetLoc(p, "pending_usd_str", s)
            /\ UNCHANGED hist
    /\ UNCHANGED <<tourVars, restVars, kv, events, withdrawals, clock>>

\* lines 119-121
D119(p) ==
    /\ pc[p] = "d119"
    /\ LET a == GetFinanceValue("user_withdrawal_address", None) IN
       IF ~Truthy(a)
       THEN /\ Goto(p, "c151")
            /\ hist' = [hist EXCEPT !.drainSaw = "noaddress"]
            /\ UNCHANGED loc
       ELSE /\ Goto(p, "d125")
            /\ hist' = [hist EXCEPT !.drainSaw = "both"]
            /\ SetLoc(p, "withdrawal_address", a)
    /\ UNCHANGED <<tourVars, restVars, kv, events, withdrawals, clock>>

\* lines 124-125
D125(p) ==
    /\ pc[p] = "d125"
    /\ Goto(p, "d126")
    /\ loc' = [loc EXCEPT
                 ![p].pending_usd = FloatOfStr(loc[p].pending_usd_str),
                 ![p].currency = GetFinanceValue("pending_withdrawal_currency", None)]
    /\ UNCHANGED <<tourVars, restVars, kv, events, withdrawals, clock, hist>>

\* line 126
D126(p) ==
    /\ pc[p] = "d126"
    /\ IF AssetPriceRaises(loc[p].currency)
       THEN Abort(p, "crashed")
       ELSE /\ \E price \in AssetPrices(loc[p].currency) : SetLoc(p, "price", price)
            /\ Goto(p, "d130")
            /\ UNCHANGED hist
    /\ UNCHANGED <<tourVars, restVars, kv, events, withdrawals, clock>>

\* lines 128-130
D130(p) ==
    /\ pc[p] = "d130"
    /\ withdrawals' = ExecuteWithdrawal(withdrawals,
                          AmountInCrypto(loc[p].pending_usd, loc[p].price),
                          loc[p].currency, loc[p].withdrawal_address)
    /\ hist' = [hist EXCEPT !.drainExecs = hist.drainExecs + 1,
                            !.pendExecs = hist.pendExecs + 1,
                            !.unexecutedShares =
                                hist.unexecutedShares - loc[p].pending_usd]
    /\ Goto(p, "d132")
    /\ UNCHANGED <<tourVars, restVars, kv, events, clock, loc>>

\* lines 132-136
D132(p) ==
    /\ pc[p] = "d132"
    /\ events' = LogFinanceEvent(events, "Executed pending withdrawal.")
    /\ hist' = [hist EXCEPT !.drainLogged = TRUE]
    /\ Goto(p, "d139")
    /\ UNCHANGED <<tourVars, restVars, kv, withdrawals, clock, loc>>

\* line 139
D139(p) ==
    /\ pc[p] = "d139"
    /\ kv' = ClearFinanceValue(kv, "pending_withdrawal_amount_usd")
    /\ Goto(p, "d140")
    /\ UNCHANGED <<tourVars, restVars, events, withdrawals, clock, loc, hist>>

\* line 140, and the return to line 148
D140(p) ==
    /\ pc[p] = "d140"
    /\ kv' = ClearFinanceValue(kv, "pending_withdrawal_currency")
    /\ Goto(p, "c151")
    /\ UNCHANGED <<tourVars, restVars, events, withdrawals, clock, loc, hist>>

\* lines 151-153
C151(p) ==
    /\ pc[p] = "c151"
    /\ IF NotScheduledDay(clock)
       THEN Return(p, "c153", hist)
       ELSE /\ Goto(p, "c155")
            /\ SetLoc(p, "today", clock)
            /\ UNCHANGED hist
    /\ UNCHANGED <<tourVars, restVars, kv, events, withdrawals, clock>>

\* lines 155-157
C155(p) ==
    /\ pc[p] = "c155"
    /\ LET last == GetFinanceValue("last_withdrawal_check", None) IN
       IF AlreadyCheckedToday(last, loc[p].today)
       THEN Return(p, "c157", hist)
       ELSE /\ Goto(p, "c160")
            /\ SetLoc(p, "last_check_date_str", last)
            /\ UNCHANGED hist
    /\ UNCHANGED <<tourVars, restVars, kv, events, withdrawals, clock>>

\* line 160
C160(p) ==
    /\ pc[p] = "c160"
    /\ events' = LogFinanceEvent(events, "Scheduled new withdrawal check started.")
    /\ Goto(p, "c162")
    /\ UNCHANGED <<tourVars, restVars, kv, withdrawals, clock, loc, hist>>

\* line 162: _get_current_account_value(), whatever the exchange reports
C162(p) ==
    /\ pc[p] = "c162"
    /\ \E value \in AccountValues : SetLoc(p, "account_value", value)
    /\ Goto(p, "c164")
    /\ UNCHANGED <<tourVars, restVars, kv, events, withdrawals, clock, hist>>

\* lines 164-168
C164(p) ==
    /\ pc[p] = "c164"
    /\ LET hwm == FloatOfStr(GetFinanceValue("high_water_mark",
                                             StrOfFloat(loc[p].account_value)))
       IN  IF NewProfit(loc[p].account_value, hwm)
           THEN /\ Goto(p, "c171")
                /\ loc' = [loc EXCEPT
                             ![p].high_water_mark = hwm,
                             ![p].withdrawal_amount_usd =
                                 WithdrawalAmountUsd(loc[p].account_value - hwm)]
           ELSE /\ Goto(p, "c198")
                /\ SetLoc(p, "high_water_mark", hwm)
    /\ UNCHANGED <<tourVars, restVars, kv, events, withdrawals, clock, hist>>

\* line 171
C171(p) ==
    /\ pc[p] = "c171"
    /\ SetLoc(p, "currency",
              GetFinanceValue("user_withdrawal_currency",
                              StrOfText(DEFAULT_WITHDRAWAL_CURRENCY)))
    /\ Goto(p, "c172")
    /\ UNCHANGED <<tourVars, restVars, kv, events, withdrawals, clock, hist>>

\* line 172
C172(p) ==
    /\ pc[p] = "c172"
    /\ SetLoc(p, "withdrawal_address", GetFinanceValue("user_withdrawal_address", None))
    /\ Goto(p, "c175")
    /\ UNCHANGED <<tourVars, restVars, kv, events, withdrawals, clock, hist>>

\* lines 175-177: the high-water mark is written before any withdrawal
C175(p) ==
    /\ pc[p] = "c175"
    /\ kv' = SetFinanceValue(kv, "high_water_mark",
                 StrOfFloat(NewHighWaterMark(loc[p].account_value,
                                             loc[p].high_water_mark)))
    /\ hist' = [hist EXCEPT
                  !.recognized = hist.recognized + 1,
                  !.recognizedSum = hist.recognizedSum
                      + (loc[p].account_value - loc[p].high_water_mark),
                  !.firstHwm = IF hist.recognized = 0
                               THEN loc[p].high_water_mark ELSE hist.firstHwm]
    /\ Goto(p, IF Truthy(loc[p].withdrawal_address) THEN "c179" ELSE "c189")
    /\ UNCHANGED <<tourVars, restVars, events, withdrawals, clock, loc>>

\* line 179
C179(p) ==
    /\ pc[p] = "c179"
    /\ IF AssetPriceRaises(loc[p].currency)
       THEN Abort(p, "crashed")
       ELSE /\ \E price \in AssetPrices(loc[p].currency) : SetLoc(p, "price", price)
            /\ Goto(p, "c181")
            /\ UNCHANGED hist
    /\ UNCHANGED <<tourVars, restVars, kv, events, withdrawals, clock>>

\* lines 180-181
C181(p) ==
    /\ pc[p] = "c181"
    /\ withdrawals' = ExecuteWithdrawal(withdrawals,
                          AmountInCrypto(loc[p].withdrawal_amount_usd, loc[p].price),
                          loc[p].currency, loc[p].withdrawal_address)
    /\ hist' = [hist EXCEPT !.recognitions = @ \cup {<<hist.inv, loc[p].today>>}]
    /\ Goto(p, "c182")
    /\ UNCHANGED <<tourVars, restVars, kv, events, clock, loc>>

\* lines 182-186
C182(p) ==
    /\ pc[p] = "c182"
    /\ events' = LogFinanceEvent(events, "Profit withdrawal processed.")
    /\ Goto(p, "c201")
    /\ UNCHANGED <<tourVars, restVars, kv, withdrawals, clock, loc, hist>>

\* line 189
C189(p) ==
    /\ pc[p] = "c189"
    /\ kv' = SetFinanceValue(kv, "pending_withdrawal_amount_usd",
                             StrOfFloat(loc[p].withdrawal_amount_usd))
    /\ hist' = [hist EXCEPT
                  !.recognitions = @ \cup {<<hist.inv, loc[p].today>>},
                  !.unexecutedShares = @ + loc[p].withdrawal_amount_usd,
                  !.pendExecs = 0]
    /\ Goto(p, "c190")
    /\ UNCHANGED <<tourVars, restVars, events, withdrawals, clock, loc>>

\* line 190
C190(p) ==
    /\ pc[p] = "c190"
    /\ kv' = SetFinanceValue(kv, "pending_withdrawal_currency", loc[p].currency)
    /\ Goto(p, "c192")
    /\ UNCHANGED <<tourVars, restVars, events, withdrawals, clock, loc, hist>>

\* lines 191-195
C192(p) ==
    /\ pc[p] = "c192"
    /\ events' = LogFinanceEvent(events, "Withdrawal pended (address missing).")
    /\ Goto(p, "c201")
    /\ UNCHANGED <<tourVars, restVars, kv, withdrawals, clock, loc, hist>>

\* line 198
C198(p) ==
    /\ pc[p] = "c198"
    /\ events' = LogFinanceEvent(events, "Check complete. No new profit above HWM.")
    /\ Goto(p, "c201")
    /\ UNCHANGED <<tourVars, restVars, kv, withdrawals, clock, loc, hist>>

\* lines 201-202
C201(p) ==
    /\ pc[p] = "c201"
    /\ kv' = SetFinanceValue(kv, "last_withdrawal_check", StrOfDate(loc[p].today))
    /\ Return(p, "c201",
              [hist EXCEPT !.stamped = @ \cup {<<hist.inv, loc[p].today>>}])
    /\ UNCHANGED <<tourVars, restVars, events, withdrawals, clock>>

(***************************************************************************)
(* The environment: the calendar, and the user who supplies an address.    *)
(***************************************************************************)
\* midnight: date.today() moves to the next day.  An invocation reads the
\* date once (line 151), so a midnight inside an invocation is the same
\* behaviour as one just before or just after it.
Tick ==
    /\ clock < MaxDate
    /\ \A p \in Schedulers : pc[p] = "idle"
    /\ clock' = clock + 1
    /\ UNCHANGED <<tourVars, restVars, kv, events, withdrawals, pc, loc, hist>>

\* the user's withdrawal address arrives in the store (read at lines 119, 172)
SetAddress ==
    /\ kv["user_withdrawal_address"] = None
    /\ kv' = SetFinanceValue(kv, "user_withdrawal_address", StrOfText("addr"))
    /\ UNCHANGED <<tourVars, restVars, events, withdrawals, clock, pc, loc, hist>>

Step(p) ==
    \/ Invoke(p) \/ Raise(p)
    \/ D115(p) \/ D119(p) \/ D125(p) \/ D126(p) \/ D130(p) \/ D132(p)
    \/ D139(p) \/ D140(p)
    \/ C151(p) \/ C155(p) \/ C160(p) \/ C162(p) \/ C164(p) \/ C171(p)
    \/ C172(p) \/ C175(p) \/ C179(p) \/ C181(p) \/ C182(p) \/ C189(p)
    \/ C190(p) \/ C192(p) \/ C198(p) \/ C201(p)

InitFinance ==
    /\ kv \in {[k \in Keys |->
                  IF k = "high_water_mark" THEN h
                  ELSE IF k = "user_withdrawal_currency" THEN c
                  ELSE None] :
               h \in {None, StrOfFloat(10000)}, c \in {None, StrOfText("eth")}}
    /\ events = [s \in Statuses |-> 0]
    /\ withdrawals = <<>>
    /\ clock = 1
    /\ pc = [p \in Schedulers |-> "idle"]
    /\ loc = [p \in Schedulers |-> NoLocals]
    /\ hist = NoHistory

\* the profit distribution never touches the configurations
Init ==
    /\ InitFinance
    /\ configurations = <<>>
    /\ tour = [op |-> "none", runs |-> 0, before |-> <<>>, council |-> <<>>,
               candidates |-> <<>>, winner |-> <<>>, new_best_params |-> <<>>,
               recent_empty |-> FALSE, historical_empty |-> FALSE,
               signal_calls |-> 0]
    /\ RestIdle

\* one scheduler process, as the design assumes
Next == Step(1) \/ Tick \/ SetAddress

Spec == Init /\ [][Next]_vars

\* two scheduler processes run check_and_process_withdrawal on the same
\* store during one day, interleaved at every store read and write
NextConcurrent == Step(1) \/ Step(2) \/ SetAddress

SpecConcurrent == Init /\ [][NextConcurrent]_vars

(***************************************************************************)
(* The tournament of refiner.py.  A score is a Python float, here an       *)
(* integer; a backtest is a function of the data and the two windows, and  *)
(* the data of a run is whatever the caller passes in.                     *)
(***************************************************************************)
\* random.randint(20, 100) and random.randint(10, 50): three and two values
\* of the ranges
TrendWindows == {20, 60, 100}
MomentumWindows == {10, 50}
\* the scores a backtest of non-empty data returns: a lower and a higher one
Scores == {1, 2}
\* backtest_strategy on one data frame, as a function of the rules it is
\* asked about: 0 for every rule when the frame is None or empty (line 43),
\* else a score for each
FramesOn(rules) == [rules -> Scores] \cup {[r \in rules |-> 0]}
RuleOf(c) == <<c.trend_window, c.momentum_window>>
\* line 42: the frame is None or empty
EmptyFrame(df) == \A r \in DOMAIN df : df[r] = 0
\* lines 42-50: the calls of ranked_momentum_rotation_strategy that a number
\* of calls of backtest_strategy on one frame make
SignalCallsAlways(df, backtests) == backtests
SignalCalls(df, backtests) == IF EmptyFrame(df) THEN 0 ELSE backtests
BacktestStrategy(df, rules) == df[RuleOf(rules)]

\* the id of the challenger (line 118) and of a stored row (INTEGER PRIMARY KEY)
ChallengerId == <<"challenger", 0>>
RowId(n) == <<n>>

\* the ORDER BY key of line 80
CombinedScore(row) == row.backtest_score + row.shadow_score
\* the orders in which ORDER BY ... DESC may return the rows whose indexes
\* are in S: descending by key, rows of equal key in any order (the query
\* names no second key)
RECURSIVE QueryOrders(_, _)
QueryOrders(table, S) ==
    IF S = {} THEN {<<>>}
    ELSE LET top == {i \in S : \A j \in S :
                        CombinedScore(table[i]) >= CombinedScore(table[j])}
         IN  UNION {{<<table[i]>> \o rest : rest \in QueryOrders(table, S \ {i})}
                    : i \in top}
\* df.head(NUM_COUNCIL_MEMBERS).to_dict('records')
DfHead(rows, n) == IF Len(rows) <= n THEN rows ELSE SubSeq(rows, 1, n)
\* nominate_council_from_hall_of_fame: the councils it may return
Councils(table) ==
    {DfHead(rows, NUM_COUNCIL_MEMBERS) : rows \in QueryOrders(table, DOMAIN table)}

\* run_shadow_simulation, the members it returns: each with latest_performance
ShadowResults(council, recent) ==
    [i \in DOMAIN council |->
        [id |-> council[i].id,
         trend_window |-> council[i].trend_window,
         momentum_window |-> council[i].momentum_window,
         backtest_score |-> council[i].backtest_score,
         shadow_score |-> council[i].shadow_score,
         latest_performance |-> BacktestStrategy(recent, council[i])]]
\* run_shadow_simulation, the table after its UPDATE ... WHERE id = member.id
\* for each member (lines 100-103)
ShadowKept(table, results) == table
ShadowUpdated(table, results) ==
    [n \in DOMAIN table |->
        IF \E i \in DOMAIN results : results[i].id = table[n].id
        THEN LET i == CHOOSE i \in DOMAIN results : results[i].id = table[n].id
             IN  [table[n] EXCEPT !.shadow_score =
                      results[i].shadow_score + results[i].latest_performance]
        ELSE table[n]]

\* max(all_candidates, key=latest_performance): the first of the largest
WinnerLast(candidates) ==
    LET best == CHOOSE i \in DOMAIN candidates :
                    /\ \A j \in DOMAIN candidates :
                           candidates[j].latest_performance
                               <= candidates[i].latest_performance
                    /\ \A j \in DOMAIN candidates :
                           candidates[j].latest_performance
                               = candidates[i].latest_performance => j <= i
    IN  candidates[best]
Winner(candidates) ==
    LET best == CHOOSE i \in DOMAIN candidates :
                    /\ \A j \in DOMAIN candidates :
                           candidates[j].latest_performance
                               <= candidates[i].latest_performance
                    /\ \A j \in DOMAIN candidates :
                           candidates[j].latest_performance
                               = candidates[i].latest_performance => i <= j
    IN  candidates[best]

\* lines 131-141: the INSERT of the winning challenger (shadow_score DEFAULT 0)
InsertAlways(table, winner) ==
    Append(table, [id |-> RowId(Len(table) + 1),
                   trend_window |-> winner.trend_window,
                   momentum_window |-> winner.momentum_window,
                   backtest_score |-> winner.backtest_score,
                   shadow_score |-> 0])
InsertNever(table, winner) == table
InsertChampion(table, winner) ==
    IF winner.id = ChallengerId
    THEN Append(table, [id |-> RowId(Len(table) + 1),
                        trend_window |-> winner.trend_window,
                        momentum_window |-> winner.momentum_window,
                        backtest_score |-> winner.backtest_score,
                        shadow_score |-> 0])
    ELSE table

\* lines 115-121: the challenger and its two scores
NewChallenger(tw, mw, recent, historical) ==
    LET rules == [trend_window |-> tw, momentum_window |-> mw]
    IN  [id |-> ChallengerId, trend_window |-> tw, momentum_window |-> mw,
         latest_performance |-> BacktestStrategy(recent, rules),
         backtest_score |-> BacktestStrategy(historical, rules)]
\* lines 123-126
AllCandidates(council, recent, new_challenger) ==
    ShadowResults(council, recent) \o <<new_challenger>>
\* the configurations table after a run of find_new_champion
TableAfter(table, council, recent, new_challenger) ==
    InsertChampion(ShadowUpdated(table, ShadowResults(council, recent)),
                   Winner(AllCandidates(council, recent, new_challenger)))
\* the rules a run backtests on the recent data
Evaluated(council, tw, mw) ==
    {RuleOf(council[i]) : i \in DOMAIN council} \cup {<<tw, mw>>}

\* find_new_champion(historical_data_df, recent_market_data_df, old_rules)
FindNewChampion ==
    /\ tour.runs < MaxTournaments
    /\ tour.runs = 0 \/ Len(configurations) <= MaxDeepRows
    /\ \E tw \in TrendWindows, mw \in MomentumWindows,
          council \in Councils(configurations) :
          \E recent \in FramesOn(Evaluated(council, tw, mw)),
             historical \in FramesOn({<<tw, mw>>}) :
             LET new_challenger == NewChallenger(tw, mw, recent, historical)
                 all_candidates == AllCandidates(council, recent, new_challenger)
                 winner == Winner(all_candidates)
             IN  /\ configurations' =
                        TableAfter(configurations, council, recent, new_challenger)
                 /\ events' = LogRefinerEvent(
                                  LogRefinerEvent(events, "Refinement process started."),
                                  "Refinement process finished.")
                 /\ tour' = [op |-> "tournament", runs |-> tour.runs + 1,
                             before |-> configurations, council |-> council,
                             candidates |-> all_candidates, winner |-> winner,
                             new_best_params |->
                                 [trend_window |-> winner.trend_window,
                                  momentum_window |-> winner.momentum_window],
                             recent_empty |-> EmptyFrame(recent),
                             historical_empty |-> EmptyFrame(historical),
                             signal_calls |->
                                 SignalCalls(recent, Len(council) + 1)
                                     + SignalCalls(historical, 1)]
    /\ UNCHANGED <<kv, withdrawals, clock, pc, loc, hist, restVars>>

\* nominate_council_from_hall_of_fame() called by itself
Nominate ==
    /\ \E council \in Councils(configurations) :
          tour' = [tour EXCEPT !.op = "nominate", !.before = configurations,
                               !.council = council, !.candidates = <<>>,
                               !.winner = <<>>, !.new_best_params = <<>>]
    /\ UNCHANGED configurations
    /\ UNCHANGED <<finVars, restVars>>

(***************************************************************************)
(* The stores a behaviour of the tournament starts from: the table after   *)
(* the first k runs of find_new_champion in which run k draws the k-th     *)
(* rule of SeedRules, the recent data score that rule 2 and every other    *)
(* rule 1, and the historical data score it 1 (k odd) or 2 (k even).       *)
(***************************************************************************)
SeedRules == <<(<<20, 10>>), (<<100, 50>>), (<<60, 10>>), (<<20, 50>>),
               (<<100, 10>>), (<<60, 50>>)>>
SeedRule(k) == SeedRules[((k - 1) % Len(SeedRules)) + 1]
RECURSIVE SeedStore(_)
SeedStore(k) ==
    IF k = 0 THEN <<>>
    ELSE LET table == SeedStore(k - 1)
             council == CHOOSE c \in Councils(table) : TRUE
             rule == SeedRule(k)
             recent == [r \in Evaluated(council, rule[1], rule[2]) |->
                           IF r = rule THEN 2 ELSE 1]
             historical == [r \in {rule} |-> 2 - (k % 2)]
         IN  TableAfter(table, council, recent,
                        NewChallenger(rule[1], rule[2], recent, historical))

InitTournament ==
    /\ configurations \in {SeedStore(k) : k \in 0..MaxSeedRuns}
    /\ tour = [op |-> "none", runs |-> 0, before |-> <<>>, council |-> <<>>,
               candidates |-> <<>>, winner |-> <<>>, new_best_params |-> <<>>,
               recent_empty |-> FALSE, historical_empty |-> FALSE,
               signal_calls |-> 0]
    /\ kv = [k \in Keys |-> None]
    /\ events = [s \in Statuses |-> 0]
    /\ withdrawals = <<>>
    /\ clock = 1
    /\ pc = [p \in Schedulers |-> "idle"]
    /\ loc = [p \in Schedulers |-> NoLocals]
    /\ hist = NoHistory
    /\ RestIdle

NextTournament == FindNewChampion \/ Nominate

SpecTournament == InitTournament /\ [][NextTournament]_vars

(***************************************************************************)
(* Properties of the profit distribution (checked under Spec).             *)
(***************************************************************************)
HwmOf(store) == FloatOfStr(store["high_water_mark"])
PendingUsdOf(store) ==
    IF store["pending_withdrawal_amount_usd"] = None THEN 0
    ELSE FloatOfStr(store["pending_withdrawal_amount_usd"])
C3_TaxTallyOf(store) ==
    IF store["total_tax_provision"] = None THEN 0
    ELSE FloatOfStr(store["total_tax_provision"])
PendingKeysOf(store) ==
    <<store["pending_withdrawal_amount_usd"], store["pending_withdrawal_currency"]>>

\* C1: across any sequence of invocations by a single scheduler, including
\* invocations that abort because a price lookup, a withdrawal or a store
\* operation raised, the stored high_water_mark never decreases (and, once
\* stored, is never removed).
C1_HwmNeverDecreases ==
    [][kv["high_water_mark"] # None =>
          /\ kv'["high_water_mark"] # None
          /\ HwmOf(kv') >= HwmOf(kv)]_vars

\* C1 witness: the mark has been raised twice and an invocation has aborted.
C1_Witness ==
    /\ hist.recognized >= 2
    /\ hist.raised >= 1
    /\ HwmOf(kv) > 10000

\* C2 (as stated): of the invocations of one calendar day at most one
\* recognizes profit, i.e. writes high_water_mark and executes or pends a
\* user share.
C2_OneRecognitionPerDay ==
    \A r1 \in hist.recognitions : \A r2 \in hist.recognitions :
        r1[2] = r2[2] => r1[1] = r2[1]

\* C2 (amended): once an invocation has stamped last_withdrawal_check for a
\* calendar day, no later invocation of that day recognizes profit.
C2_NoRecognitionAfterStamp ==
    \A s \in hist.stamped : \A r \in hist.recognitions :
        s[2] = r[2] => r[1] <= s[1]

\* C2 witness: an invocation recognized profit and stamped the day, and a
\* later invocation of the same day returned at the guard of line 157.
C2_Witness ==
    \E s \in hist.stamped :
        /\ s \in hist.recognitions
        /\ hist.inv > s[1]
        /\ clock = s[2]
        /\ pc[1] = "idle" /\ hist.outcome = "returned" /\ hist.at = "c157"

\* C3: when a scheduled check finds account_value > high_water_mark and no
\* address, then once both pending keys are written the pending amount is
\* profit * fraction * (1 - tax_rate) with the default tax rate of 20%,
\* total_tax_provision has grown by profit * fraction * tax_rate, and
\* high_water_mark is the account value.
C3_PendedShareNetOfTax ==
    \A p \in Schedulers :
        pc[p] = "c192" =>
            LET profit == loc[p].account_value - loc[p].high_water_mark
                toDistribute == (profit * PROFITS_WITHDRAWAL_PERCENTAGE) \div 100
            IN  /\ PendingUsdOf(kv) = (toDistribute * (100 - 20)) \div 100
                /\ C3_TaxTallyOf(kv) = C3_TaxTallyOf(hist.kv0) + (toDistribute * 20) \div 100
                /\ HwmOf(kv) = loc[p].account_value

\* C4: no profit is recognized twice: the profits of all recognitions add up
\* to the current high_water_mark minus the high_water_mark read at the
\* first recognition, whatever failed after a recognition.
C4_NoProfitRecognizedTwice ==
    hist.recognized > 0 =>
        hist.recognizedSum = HwmOf(kv) - hist.firstHwm

\* C4 witness: a second recognition whose price lookup or withdrawal raised.
C4_Witness ==
    /\ hist.recognized >= 2
    /\ hist.outcome = "failed"
    /\ hist.at \in {"c179", "c181"}

\* C5: every invocation runs the pending drain first; when the pending
\* amount and the address both exist (and no database or exchange call
\* raises) the drain executes the withdrawal once, logs a FINANCE event and
\* leaves both pending keys absent; when the address is absent it leaves the
\* pending keys unchanged and executes nothing.
C5_DrainRunsFirst ==
    /\ hist.outcome # "crashed"
    /\ pc[1] \notin {"idle", "d115", "d119", "d125", "d126", "d130", "d132",
                     "d139", "d140"} => hist.drainSaw # "none"
    /\ (pc[1] = "c151" /\ hist.drainSaw = "both") =>
           /\ hist.drainExecs = 1
           /\ hist.drainLogged
           /\ PendingKeysOf(kv) = <<None, None>>
    /\ (pc[1] = "c151" /\ hist.drainSaw = "noaddress") =>
           /\ hist.drainExecs = 0
           /\ PendingKeysOf(kv) = PendingKeysOf(hist.kv0)

\* C6: a failure of _execute_withdrawal in the pending drain is caught where
\* the withdrawal is called: the invocation is not ended by it and the
\* pending keys stay as they were.
C6_DrainFailureCaught ==
    hist.at = "d130" =>
        /\ hist.outcome # "failed"
        /\ PendingKeysOf(kv) = PendingKeysOf(hist.kv0)

\* C7: between invocations (no call having raised) the pending amount is the
\* total of the user shares recognized without an address and not yet
\* executed: no share is lost by being overwritten.
C7_PendingHoldsEveryShare ==
    (pc[1] = "idle" /\ hist.raised = 0) =>
        PendingUsdOf(kv) = hist.unexecutedShares

(***************************************************************************)
(* Properties of the tournament (checked under SpecTournament).            *)
(***************************************************************************)
\* the challenger of the last run: the last of its candidates
ChallengerOf(t) == t.candidates[Len(t.candidates)]

\* C8: a run of find_new_champion against an empty configurations table
\* selects the challenger, returns the challenger's two windows as the new
\* rule set, and leaves exactly one row, with those windows.
C8_EmptyStorePromotesChallenger ==
    (tour.op = "tournament" /\ tour.before = <<>>) =>
        /\ tour.winner = ChallengerOf(tour)
        /\ tour.winner.id = ChallengerId
        /\ tour.new_best_params =
               [trend_window |-> ChallengerOf(tour).trend_window,
                momentum_window |-> ChallengerOf(tour).momentum_window]
        /\ Len(configurations) = 1
        /\ RuleOf(configurations[1]) = RuleOf(ChallengerOf(tour))

\* C8 witness: a run against the empty table has finished.
C8_Witness ==
    /\ tour.op = "tournament"
    /\ tour.before = <<>>
    /\ Len(configurations) = 1

\* C9: the candidates are the council members in nomination order followed
\* by the challenger; the winner has the largest latest_performance and is
\* the first candidate that has it, so the challenger wins only when its
\* latest_performance is strictly greater than every council member's.
C9_WinnerIsFirstMaximum ==
    tour.op = "tournament" =>
        LET c == tour.candidates
            n == Len(c)
        IN  /\ n = Len(tour.council) + 1
            /\ c[n].id = ChallengerId
            /\ \A j \in 1..(n - 1) : c[j].id = tour.council[j].id
            /\ \E i \in 1..n :
                   /\ tour.winner = c[i]
                   /\ \A j \in 1..n :
                          c[j].latest_performance <= c[i].latest_performance
                   /\ \A j \in 1..(i - 1) :
                          c[j].latest_performance < c[i].latest_performance
            /\ tour.winner.id = ChallengerId =>
                   \A j \in 1..(n - 1) :
                       c[j].latest_performance < c[n].latest_performance

\* C9 witness: the challenger ties with the best council members, two of
\* them, and the first of these wins.
C9_Witness ==
    /\ tour.op = "tournament"
    /\ Len(tour.candidates) >= 4
    /\ tour.winner.id # ChallengerId
    /\ tour.winner.latest_performance = ChallengerOf(tour).latest_performance
    /\ \E j \in 1..(Len(tour.candidates) - 1) :
           /\ tour.candidates[j].id # tour.winner.id
           /\ tour.candidates[j].latest_performance
                  = tour.winner.latest_performance

\* the rows of S by combined score descending, rows of equal score in
\* insertion order
RECURSIVE C10_StableOrder(_, _)
C10_StableOrder(table, S) ==
    IF S = {} THEN <<>>
    ELSE LET i == CHOOSE i \in S : \A j \in S :
                      \/ CombinedScore(table[i]) > CombinedScore(table[j])
                      \/ /\ CombinedScore(table[i]) = CombinedScore(table[j])
                         /\ i <= j
         IN  <<table[i]>> \o C10_StableOrder(table, S \ {i})

\* C10: nominate_council_from_hall_of_fame returns the stored rows by
\* backtest_score + shadow_score descending, equal sums in insertion order,
\* cut to NUM_COUNCIL_MEMBERS rows (all of fewer, none of an empty table),
\* and changes nothing in the table.
C10_NominationStableTopFive ==
    tour.op \in {"nominate", "tournament"} =>
        /\ tour.council =
               DfHead(C10_StableOrder(tour.before, DOMAIN tour.before),
                      NUM_COUNCIL_MEMBERS)
        /\ tour.op = "nominate" => configurations = tour.before

\* C11: after the shadow simulation of a run, every council member's stored
\* shadow_score is its shadow_score before the run plus its
\* latest_performance of this run, written to the row of the member's own
\* id; the rows outside the council keep their shadow_score, and every row
\* keeps its id, windows and backtest_score.
C11_ShadowScoreAccumulates ==
    tour.op = "tournament" =>
        /\ Len(configurations) >= Len(tour.before)
        /\ \A n \in DOMAIN tour.before :
               LET old == tour.before[n]
                   new == configurations[n]
                   seat == {i \in DOMAIN tour.council : tour.council[i].id = old.id}
               IN  /\ new.id = old.id
                   /\ new.trend_window = old.trend_window
                   /\ new.momentum_window = old.momentum_window
                   /\ new.backtest_score = old.backtest_score
                   /\ seat = {} => new.shadow_score = old.shadow_score
                   /\ \A i \in seat :
                          new.shadow_score = old.shadow_score
                              + tour.candidates[i].latest_performance

\* C11 witness: a run against six rows, one of them outside the council,
\* in which two members earned different, non-zero performances.
C11_Witness ==
    /\ tour.op = "tournament"
    /\ Len(tour.before) = NUM_COUNCIL_MEMBERS + 1
    /\ Len(tour.council) = NUM_COUNCIL_MEMBERS
    /\ \E i, j \in DOMAIN tour.council :
           /\ tour.candidates[i].latest_performance = 1
           /\ tour.candidates[j].latest_performance = 2

(***************************************************************************)
(* The signal generator of strategy.py and backtest_strategy of            *)
(* refiner.py on price frames.  A frame has the columns btc_price and      *)
(* eth_price, in this order, over the periods 1..n; prices are positive    *)
(* integers, and a score (a Python float) is an exact fraction <<p, q>> in *)
(* lowest terms.  backtest_strategy takes a frame and a rule set and no    *)
(* fee rate: the fee rate is a quantity of the deployment it cannot see.   *)
(***************************************************************************)
\* the prices of a frame, the windows of a rule set (scaled down from
\* 20..100 and 10..50 to the lengths of the frames), the fee rates of a
\* deployment in per mille
PriceLevels == {1, 2}
Windows == {1, 2, 3}
FeeRates == {0, 1, 10}
Frames ==
    UNION {[btc_price : [1..n -> PriceLevels], eth_price : [1..n -> PriceLevels]]
           : n \in 0..MaxLen}
FrameLen(df) == Len(df.btc_price)
\* a missing value of a pandas Series
NaN == "NaN"

RECURSIVE SumOver(_, _, _)
SumOver(s, a, b) == IF a > b THEN 0 ELSE s[a] + SumOver(s, a + 1, b)
RECURSIVE Gcd(_, _)
Gcd(a, b) == IF b = 0 THEN a ELSE Gcd(b, a % b)
Fraction(p, q) == <<p \div Gcd(p, q), q \div Gcd(p, q)>>
FractionTimes(x, y) == Fraction(x[1] * y[1], x[2] * y[2])
FractionLess(x, y) == x[1] * y[2] < y[1] * x[2]

\* strategy.py lines 18-19: df['btc_price'] > rolling(trend_window).mean(),
\* False where the mean is missing (the first trend_window - 1 periods)
in_market(df, trend_window, t) ==
    /\ t >= trend_window
    /\ df.btc_price[t] * trend_window
           > SumOver(df.btc_price, t - trend_window + 1, t)
\* lines 23-30: momentum df[col] / df[col].shift(momentum_window) - 1 of
\* each column, missing in the first momentum_window periods, and the
\* column of the largest, the first of equal ones (idxmax); missing when
\* every momentum of the period is
best_asset_last(df, momentum_window, t) ==
    IF t <= momentum_window THEN NaN
    ELSE IF df.eth_price[t] * df.btc_price[t - momentum_window]
                >= df.btc_price[t] * df.eth_price[t - momentum_window]
         THEN "eth_mom"
         ELSE "btc_mom"
best_asset(df, momentum_window, t) ==
    IF t <= momentum_window THEN NaN
    ELSE IF df.eth_price[t] * df.btc_price[t - momentum_window]
                > df.btc_price[t] * df.eth_price[t - momentum_window]
         THEN "eth_mom"
         ELSE "btc_mom"
\* line 34
asset_map(mom_col) == IF mom_col = "btc_mom" THEN "hold_btc" ELSE "hold_eth"
\* lines 33-36: 'hold_usdt' everywhere, replaced by the mapped best asset
\* (missing where best_asset is) in the periods in_market
signal(df, trend_window, momentum_window, t) ==
    IF in_market(df, trend_window, t)
    THEN IF best_asset(df, momentum_window, t) = NaN THEN NaN
         ELSE asset_map(best_asset(df, momentum_window, t))
    ELSE "hold_usdt"
\* ranked_momentum_rotation_strategy(df, trend_window, momentum_window)
ranked_momentum_rotation_strategy(df, trend_window, momentum_window) ==
    [t \in 1..FrameLen(df) |-> signal(df, trend_window, momentum_window, t)]

\* refiner.py line 56: signals.shift(1)
held_asset_signal_shift2(signals) ==
    [t \in DOMAIN signals |-> IF t <= 2 THEN NaN ELSE signals[t - 2]]
held_asset_signal(signals) ==
    [t \in DOMAIN signals |-> IF t = 1 THEN NaN ELSE signals[t - 1]]
\* lines 63-64
price_col(held) == IF held = "hold_btc" THEN "btc_price" ELSE "eth_price"
\* lines 55-66: 1 + portfolio_returns[t]; 0.0 where the shifted signal is
\* missing (dropna) or hold_usdt, else the pct_change of the held asset
PortfolioGrowthOfBtc(df, held, t) ==
    IF t = 1 THEN <<1, 1>>
    ELSE Fraction(df.btc_price[t], df.btc_price[t - 1])
PortfolioGrowth(df, held, t) ==
    IF held[t] \in {NaN, "hold_usdt"} THEN <<1, 1>>
    ELSE Fraction(df[price_col(held[t])][t], df[price_col(held[t])][t - 1])
\* line 69: (1 + portfolio_returns).cumprod() up to period t
RECURSIVE CumProd(_, _, _)
CumProd(df, held, t) ==
    IF t = 0 THEN <<1, 1>>
    ELSE FractionTimes(CumProd(df, held, t - 1), PortfolioGrowth(df, held, t))
\* backtest_strategy(historical_data_df, rules)
backtest_strategy(df, rules) ==
    IF FrameLen(df) = 0 THEN <<0, 1>>
    ELSE CumProd(df,
                 held_asset_signal(
                     ranked_momentum_rotation_strategy(
                         df, rules.trend_window, rules.momentum_window)),
                 FrameLen(df))

\* The calls of backtest_strategy on one frame and rule set while the fee
\* rate of the deployment changes between them.
InitBacktest ==
    /\ \E df \in Frames, tw \in Windows, mw \in Windows, fee \in FeeRates :
          bt = [df |-> df,
                rules |-> [trend_window |-> tw, momentum_window |-> mw],
                fee_rate |-> fee, signals |-> <<>>, scored |-> {}]
    /\ run = Idle /\ sched = Idle
    /\ configurations = <<>>
    /\ tour = [op |-> "none", runs |-> 0, before |-> <<>>, council |-> <<>>,
               candidates |-> <<>>, winner |-> <<>>, new_best_params |-> <<>>,
               recent_empty |-> FALSE, historical_empty |-> FALSE,
               signal_calls |-> 0]
    /\ kv = [k \in Keys |-> None]
    /\ events = [s \in Statuses |-> 0]
    /\ withdrawals = <<>>
    /\ clock = 1
    /\ pc = [p \in Schedulers |-> "idle"]
    /\ loc = [p \in Schedulers |-> NoLocals]
    /\ hist = NoHistory

Backtest ==
    /\ bt.fee_rate \notin {s.fee_rate : s \in bt.scored}
    /\ bt' = [bt EXCEPT
                 !.signals = IF FrameLen(bt.df) = 0 THEN <<>>
                             ELSE ranked_momentum_rotation_strategy(
                                      bt.df, bt.rules.trend_window,
                                      bt.rules.momentum_window),
                 !.scored = @ \cup {[fee_rate |-> bt.fee_rate,
                                     score |-> backtest_strategy(bt.df, bt.rules)]}]
    /\ UNCHANGED <<finVars, tourVars, run, sched>>

SetFeeRate ==
    /\ \E fee \in FeeRates \ {bt.fee_rate} : bt' = [bt EXCEPT !.fee_rate = fee]
    /\ UNCHANGED <<finVars, tourVars, run, sched>>

NextBacktest == Backtest \/ SetFeeRate

SpecBacktest == InitBacktest /\ [][NextBacktest]_vars

(***************************************************************************)
(* Properties of the backtest (checked under SpecBacktest).                *)
(***************************************************************************)
\* the asset held in period t (the stable asset where the shifted signal is
\* missing, and before the first period) and the number of periods that
\* start with a change of it
Position(held, t) ==
    IF t = 0 \/ held[t] = NaN THEN "hold_usdt" ELSE held[t]
Switches(held) ==
    Cardinality({t \in DOMAIN held : Position(held, t) # Position(held, t - 1)})

\* C12: of two backtests of the same frame and rule set (the same signal
\* sequence) with at least one switch of the held asset, the one under the
\* higher fee rate scores strictly less.
C12_ScoreDecreasesInFeeRate ==
    \A a, b \in bt.scored :
        (/\ a.fee_rate < b.fee_rate
         /\ Switches(held_asset_signal(bt.signals)) >= 1)
            => FractionLess(b.score, a.score)

\* C13: a backtest of a non-empty frame whose signal is hold_usdt in every
\* period scores exactly 1, under every fee rate.
C13_StableOnlyScoresOne ==
    (/\ FrameLen(bt.df) >= 1
     /\ \A t \in DOMAIN bt.signals : bt.signals[t] = "hold_usdt")
        => \A s \in bt.scored : s.score = <<1, 1>>

\* C13 witness: a frame of at least three periods in which both prices
\* move, its signal hold_usdt throughout, scored under two fee rates.
C13_Witness ==
    /\ FrameLen(bt.df) >= 3
    /\ Len(bt.signals) = FrameLen(bt.df)
    /\ \A t \in DOMAIN bt.signals : bt.signals[t] = "hold_usdt"
    /\ \E t \in 2..FrameLen(bt.df) : bt.df.btc_price[t] # bt.df.btc_price[t - 1]
    /\ \E t \in 2..FrameLen(bt.df) : bt.df.eth_price[t] # bt.df.eth_price[t - 1]
    /\ Cardinality(bt.scored) >= 2

\* C14: for momentum_window below the length of the frame, the signal has
\* one entry per period and its first max(trend_window, momentum_window) - 1
\* entries are missing (neither an asset nor hold_usdt).
C14_SignalAlignedUndefinedPrefix ==
    (/\ bt.scored # {}
     /\ bt.rules.momentum_window < FrameLen(bt.df))
        => /\ Len(bt.signals) = FrameLen(bt.df)
           /\ \A t \in 1..FrameLen(bt.df) :
                  (/\ t <= bt.rules.trend_window - 1
                      \/ t <= bt.rules.momentum_window - 1)
                      => bt.signals[t] = NaN

(***************************************************************************)
(* The main loop of trader.py (lines 132-170) on its own configurations    *)
(* table, and the dashboard's force-refinement route.  Every statement     *)
(* that reaches the database or the file system is one step, which may     *)
(* raise instead; the except clause of line 166 catches what the try block *)
(* raises.                                                                 *)
(***************************************************************************)
\* line 142
refinement_interval == 4
\* line 91: random.randint(3, 8) * 10, random.randint(2, 8) * 5 and
\* random.uniform(100, 200); lines 70 and 128: random.uniform(-5, 5)
TraderTrendWindows == {30, 80}
TraderMomentumWindows == {10}
TraderBacktestScores == {100, 200}
TraderPerformances == {-5, 5}
\* line 137
InitialRules == [trend_window |-> 50, momentum_window |-> 20]

\* UPDATE configurations SET shadow_score = ... WHERE id = ...
\* (trader.py line 76, refiner.py line 102)
UpdateShadowScore(table, id, new_shadow_score) ==
    [n \in DOMAIN table |->
        IF table[n].id = id
        THEN [table[n] EXCEPT !.shadow_score = new_shadow_score]
        ELSE table[n]]
\* a council member with the latest_performance of this pass
WithPerformance(member, performance) ==
    [id |-> member.id,
     trend_window |-> member.trend_window,
     momentum_window |-> member.momentum_window,
     backtest_score |-> member.backtest_score,
     shadow_score |-> member.shadow_score,
     latest_performance |-> performance]

\* line 166: an exception of the try block is caught and printed
OnExceptionPropagate(s, label) == [s EXCEPT !.pc = "crashed"]
OnException(s, label) ==
    [s EXCEPT !.pc = "l167", !.failed = TRUE,
              !.last_failure = <<s.cycle_count, label>>]

TraderRaiseLabels == {"l152", "l160", "l70", "l110", "l113", "l122"}

InitTrader ==
    /\ sched = [pc |-> "l147", cycle_count |-> 0,
                current_rules |-> InitialRules, rules_json |-> InitialRules,
                council |-> <<>>, i |-> 0, results |-> <<>>,
                winner |-> <<>>, new_best_params |-> <<>>,
                log |-> [TRADE |-> 0, INSIGHT |-> 0],
                \* history of the cycle: whether it raised, whether it
                \* reached the nomination, the first cycle that started with
                \* the signal set, and the last failure
                failed |-> FALSE, ran |-> FALSE, first_forced |-> 0,
                last_failure |-> <<>>]
    /\ configurations = <<>>
    /\ tour = [op |-> "none", runs |-> 0, before |-> <<>>, council |-> <<>>,
               candidates |-> <<>>, winner |-> <<>>, new_best_params |-> <<>>,
               recent_empty |-> FALSE, historical_empty |-> FALSE,
               signal_calls |-> 0]
    /\ bt = Idle /\ run = Idle
    /\ kv = [k \in Keys |-> None]
    /\ events = [s \in Statuses |-> 0]
    /\ withdrawals = <<>>
    /\ clock = 1
    /\ pc = [p \in Schedulers |-> "idle"]
    /\ loc = [p \in Schedulers |-> NoLocals]
    /\ hist = NoHistory

\* line 147: cycle_count += 1
T147 ==
    /\ sched.pc = "l147"
    /\ sched.cycle_count < MaxCycles
    /\ sched' = [sched EXCEPT
                    !.pc = "l152", !.cycle_count = @ + 1,
                    !.failed = FALSE, !.ran = FALSE,
                    !.first_forced =
                        IF @ = 0 /\ kv["force_refinement"] = StrOfText("true")
                        THEN sched.cycle_count + 1 ELSE @]
    /\ UNCHANGED <<finVars, tourVars, bt, run>>
\* line 152: log_event("TRADE", ...)
T152 ==
    /\ sched.pc = "l152"
    /\ sched' = [sched EXCEPT !.pc = "l154", !.log.TRADE = @ + 1]
    /\ UNCHANGED <<finVars, tourVars, bt, run>>
\* line 154: if cycle_count % refinement_interval == 0
T154 ==
    /\ sched.pc = "l154"
    /\ sched' = [sched EXCEPT
                    !.pc = IF sched.cycle_count % refinement_interval = 0
                           THEN "l160" ELSE "l169"]
    /\ UNCHANGED <<finVars, tourVars, bt, run>>
\* line 160: nominate_council_from_hall_of_fame()
T160 ==
    /\ sched.pc = "l160"
    /\ \E council \in Councils(configurations) :
          sched' = [sched EXCEPT !.pc = "l70", !.ran = TRUE,
                                 !.council = council, !.i = 1,
                                 !.results = <<>>]
    /\ UNCHANGED <<finVars, tourVars, bt, run>>
\* lines 67-78: one member of run_shadow_simulation, or the end of its loop
T70 ==
    /\ sched.pc = "l70"
    /\ IF sched.i > Len(sched.council)
       THEN /\ sched' = [sched EXCEPT !.pc = "l91"]
            /\ UNCHANGED configurations
       ELSE \E performance \in TraderPerformances :
               LET member == sched.council[sched.i]
               IN  /\ configurations' =
                          UpdateShadowScore(configurations, member.id,
                                            member.shadow_score + performance)
                   /\ sched' = [sched EXCEPT
                                   !.i = @ + 1,
                                   !.results = Append(@,
                                       WithPerformance(member, performance))]
    /\ UNCHANGED <<finVars, tour, bt, run>>
\* lines 91-100: the challenger and the vote
T91 ==
    /\ sched.pc = "l91"
    /\ \E tw \in TraderTrendWindows, mw \in TraderMomentumWindows,
          score \in TraderBacktestScores, performance \in TraderPerformances :
          LET new_challenger ==
                  [id |-> ChallengerId, trend_window |-> tw,
                   momentum_window |-> mw, backtest_score |-> score,
                   latest_performance |-> performance]
              winner == Winner(sched.results \o <<new_challenger>>)
          IN  sched' = [sched EXCEPT
                           !.pc = "l110", !.winner = winner,
                           !.new_best_params =
                               [trend_window |-> winner.trend_window,
                                momentum_window |-> winner.momentum_window]]
    /\ UNCHANGED <<finVars, tourVars, bt, run>>
\* line 110: log_event("INSIGHT", ...)
T110 ==
    /\ sched.pc = "l110"
    /\ sched' = [sched EXCEPT !.pc = "l113", !.log.INSIGHT = @ + 1]
    /\ UNCHANGED <<finVars, tourVars, bt, run>>
\* lines 113-120: the INSERT of the winning challenger
T113 ==
    /\ sched.pc = "l113"
    /\ configurations' = InsertChampion(configurations, sched.winner)
    /\ sched' = [sched EXCEPT !.pc = "l122"]
    /\ UNCHANGED <<finVars, tour, bt, run>>
\* lines 122-124 and 164: rules.json and current_rules
T122 ==
    /\ sched.pc = "l122"
    /\ sched' = [sched EXCEPT !.pc = "l169",
                              !.rules_json = sched.new_best_params,
                              !.current_rules = sched.new_best_params]
    /\ UNCHANGED <<finVars, tourVars, bt, run>>
\* a statement of the try block raises
TraderRaise ==
    /\ sched.pc \in TraderRaiseLabels
    /\ sched.pc = "l70" => sched.i <= Len(sched.council)
    /\ sched.pc = "l113" => sched.winner.id = ChallengerId
    /\ sched' = OnException(sched, sched.pc)
    /\ UNCHANGED <<finVars, tourVars, bt, run>>
\* line 167
T167 ==
    /\ sched.pc = "l167"
    /\ sched' = [sched EXCEPT !.pc = "l169"]
    /\ UNCHANGED <<finVars, tourVars, bt, run>>
\* lines 169-170: sleep, then the next iteration of while True
T169 ==
    /\ sched.pc = "l169"
    /\ sched' = [sched EXCEPT !.pc = "l147"]
    /\ UNCHANGED <<finVars, tourVars, bt, run>>
\* dashboard.py lines 101-111: _set_db_value('force_refinement', 'true')
\* (a failure of the write is caught at line 108 and changes nothing)
ForceRefinement ==
    /\ kv' = SetFinanceValue(kv, "force_refinement", StrOfText("true"))
    /\ UNCHANGED <<events, withdrawals, clock, pc, loc, hist, tourVars,
                   restVars>>

NextTrader ==
    \/ T147 \/ T152 \/ T154 \/ T160 \/ T70 \/ T91 \/ T110 \/ T113 \/ T122
    \/ TraderRaise \/ T167 \/ T169 \/ ForceRefinement

SpecTrader == InitTrader /\ [][NextTrader]_vars

(***************************************************************************)
(* Properties of the main loop (checked under SpecTrader).                 *)
(***************************************************************************)
\* C15: an exception raised inside a cycle does not end the loop: the
\* cycle is abandoned with its cycle_count kept, and the loop goes on to
\* its sleep and to the next cycle, which counts one more.
C15_FailedCycleDoesNotStopLoop ==
    [][/\ sched'.pc # "crashed"
       /\ (sched.pc \in TraderRaiseLabels /\ sched'.failed /\ ~sched.failed) =>
              /\ sched'.pc = "l167"
              /\ sched'.cycle_count = sched.cycle_count
       /\ sched.pc = "l167" => sched'.pc = "l169"
       /\ sched.pc = "l169" => sched'.pc = "l147"
       /\ sched.pc = "l147" =>
              /\ sched'.pc = "l152"
              /\ sched'.cycle_count = sched.cycle_count + 1]_sched

\* C15 witness: the shadow simulation of cycle 8 raised, and cycle 9 has
\* started.
C15_Witness ==
    /\ sched.last_failure = <<2 * refinement_interval, "l70">>
    /\ sched.cycle_count = 2 * refinement_interval + 1
    /\ sched.pc = "l152"

\* C16: a cycle that ends without an exception has run the tournament if
\* its count is a multiple of refinement_interval or if it is the first
\* cycle that started with force_refinement = 'true'.
C16_TournamentOnIntervalOrSignal ==
    (sched.pc = "l169" /\ ~sched.failed) =>
        /\ sched.cycle_count % refinement_interval = 0 => sched.ran
        /\ sched.cycle_count = sched.first_forced => sched.ran

\* C17: a run of find_new_champion whose winner is the challenger leaves
\* the table one row longer, the new row (under a new integer id) carrying
\* the challenger's windows and backtest_score and shadow_score 0; a run
\* won by a council member leaves it as long as before; either way every
\* row of before is still there, and no row has the id 'challenger'.
C17_InsertedIffChallengerWins ==
    tour.op = "tournament" =>
        LET n == Len(tour.before)
        IN  /\ \A i \in 1..n :
                   i <= Len(configurations)
                       /\ configurations[i].id = tour.before[i].id
            /\ \A i \in DOMAIN configurations :
                   configurations[i].id # ChallengerId
            /\ tour.winner.id # ChallengerId => Len(configurations) = n
            /\ tour.winner.id = ChallengerId =>
                   /\ Len(configurations) = n + 1
                   /\ \A i \in 1..n :
                          configurations[n + 1].id # tour.before[i].id
                   /\ configurations[n + 1].trend_window
                          = ChallengerOf(tour).trend_window
                   /\ configurations[n + 1].momentum_window
                          = ChallengerOf(tour).momentum_window
                   /\ configurations[n + 1].backtest_score
                          = ChallengerOf(tour).backtest_score
                   /\ configurations[n + 1].shadow_score = 0

\* C17 witness: the challenger beat a full council and became the sixth
\* row, with a backtest_score that is not 0.
C17_Witness ==
    /\ tour.op = "tournament"
    /\ Len(tour.council) = NUM_COUNCIL_MEMBERS
    /\ tour.winner.id = ChallengerId
    /\ Len(configurations) = Len(tour.before) + 1
    /\ configurations[Len(configurations)].backtest_score = 2

(***************************************************************************)
(* run_shadow_simulation of refiner.py (lines 92-107) member by member:    *)
(* the backtest of line 96 and the UPDATE of lines 98-105 are one step     *)
(* each, and either may raise; the function has no try block, so what a    *)
(* step raises leaves the loop and the function.                           *)
(***************************************************************************)
InitShadow ==
    /\ configurations \in {SeedStore(k) : k \in 0..MaxSeedRuns}
    /\ \E council \in Councils(configurations) :
          \E recent \in FramesOn({RuleOf(council[i]) : i \in DOMAIN council}) :
             run = [pc |-> "l96", council |-> council, recent |-> recent,
                    i |-> 1, results |-> <<>>,
                    \* history: the ids whose UPDATE went through, and the
                    \* position of the member whose step raised
                    persisted |-> {}, failed |-> 0]
    /\ tour = [op |-> "none", runs |-> 0, before |-> <<>>, council |-> <<>>,
               candidates |-> <<>>, winner |-> <<>>, new_best_params |-> <<>>,
               recent_empty |-> FALSE, historical_empty |-> FALSE,
               signal_calls |-> 0]
    /\ bt = Idle /\ sched = Idle
    /\ kv = [k \in Keys |-> None]
    /\ events = [s \in Statuses |-> 0]
    /\ withdrawals = <<>>
    /\ clock = 1
    /\ pc = [p \in Schedulers |-> "idle"]
    /\ loc = [p \in Schedulers |-> NoLocals]
    /\ hist = NoHistory

\* line 96: member['latest_performance'] = backtest_strategy(...)
S96 ==
    /\ run.pc = "l96"
    /\ run.i <= Len(run.council)
    /\ run' = [run EXCEPT
                  !.pc = "l98",
                  !.results = Append(@,
                      WithPerformance(run.council[run.i],
                          BacktestStrategy(run.recent, run.council[run.i])))]
    /\ UNCHANGED <<finVars, tourVars, bt, sched>>
\* lines 98-105: the UPDATE of the member's row, then the next member
S98 ==
    /\ run.pc = "l98"
    /\ LET member == run.results[run.i]
       IN  /\ configurations' =
                  UpdateShadowScore(configurations, member.id,
                      member.shadow_score + member.latest_performance)
           /\ run' = [run EXCEPT !.pc = "l96", !.i = @ + 1,
                                 !.persisted = @ \cup {member.id}]
    /\ UNCHANGED <<finVars, tour, bt, sched>>
\* lines 106-107: the loop is over
S107 ==
    /\ run.pc = "l96"
    /\ run.i > Len(run.council)
    /\ run' = [run EXCEPT !.pc = "done"]
    /\ UNCHANGED <<finVars, tourVars, bt, sched>>
\* the backtest or the UPDATE of member i raises
ShadowRaise ==
    /\ run.pc \in {"l96", "l98"}
    /\ run.i <= Len(run.council)
    /\ run' = [run EXCEPT !.pc = "raised", !.failed = run.i]
    /\ UNCHANGED <<finVars, tourVars, bt, sched>>

NextShadow == S96 \/ S98 \/ S107 \/ ShadowRaise

SpecShadow == InitShadow /\ [][NextShadow]_vars

\* C18: when the backtest or the UPDATE of one member fails, the pass still
\* ends with the UPDATE of every other member of the council persisted.
C18_MemberFailureIsolated ==
    run.pc \in {"done", "raised"} =>
        \A j \in DOMAIN run.council :
            j # run.failed => run.council[j].id \in run.persisted

(***************************************************************************)
(* Further properties of the finance manager (checked under Spec).         *)
(***************************************************************************)
\* the lines of check_and_process_withdrawal after the comparison of line 166
C19_AfterComparison ==
    {"c171", "c172", "c175", "c179", "c181", "c182", "c189", "c190", "c192",
     "c198", "c201"}
C19_NoProfitStatus == "Check complete. No new profit above HWM."

\* C19: once a scheduled check has found account_value <= high_water_mark,
\* the invocation leaves high_water_mark, total_tax_provision and the two
\* pending keys as they are and executes no withdrawal; it logs one event,
\* the no-profit one at line 198, and then stamps last_withdrawal_check
\* with today's date at line 201.
C19_NoProfitOnlyLogsAndStamps ==
    [][(/\ pc[1] \in C19_AfterComparison
        /\ loc[1].account_value <= loc[1].high_water_mark) =>
           /\ pc[1] \in {"c198", "c201"}
           /\ \A k \in {"high_water_mark", "total_tax_provision",
                        "pending_withdrawal_amount_usd",
                        "pending_withdrawal_currency"} : kv'[k] = kv[k]
           /\ withdrawals' = withdrawals
           /\ events' \in {events, LogFinanceEvent(events, C19_NoProfitStatus)}
           /\ events' # events <=> (pc[1] = "c198" /\ pc'[1] = "c201")
           /\ kv'["last_withdrawal_check"] # kv["last_withdrawal_check"] =>
                  pc[1] = "c201"
           /\ (pc[1] = "c201" /\ hist'.outcome = "returned") =>
                  /\ hist'.at = "c201"
                  /\ kv'["last_withdrawal_check"] = StrOfDate(loc[1].today)]_vars

\* C19 witness: a check that found the account below the high-water mark,
\* with a withdrawal pending, has logged its event and is about to stamp.
C19_Witness ==
    /\ pc[1] = "c201"
    /\ loc[1].account_value < loc[1].high_water_mark
    /\ kv["high_water_mark"] = StrOfFloat(loc[1].high_water_mark)
    /\ kv["pending_withdrawal_amount_usd"] # None
    /\ events[C19_NoProfitStatus] >= 1

\* C20: on a day that is not in WITHDRAWAL_DAYS an invocation goes no
\* further than the drain and the test of line 152: it never reaches the
\* read of the account value, high_water_mark and last_withdrawal_check
\* keep their values, and no pending withdrawal is created (the drain may
\* clear the one there is).
C20_OffDayOnlyDrains ==
    [][DayOfMonth(clock) \notin WITHDRAWAL_DAYS =>
           /\ pc'[1] \in {"idle", "d115", "d119", "d125", "d126", "d130",
                          "d132", "d139", "d140", "c151"}
           /\ loc'[1].account_value = NoLocals.account_value
           /\ kv'["high_water_mark"] = kv["high_water_mark"]
           /\ kv'["last_withdrawal_check"] = kv["last_withdrawal_check"]
           /\ kv'["pending_withdrawal_amount_usd"]
                  \in {kv["pending_withdrawal_amount_usd"], None}
           /\ kv'["pending_withdrawal_currency"]
                  \in {kv["pending_withdrawal_currency"], None}
           /\ (pc[1] = "c151" /\ hist'.outcome = "returned") =>
                  hist'.at = "c153"]_vars

\* C20 witness: an invocation on the 2nd of the month or later, short of
\* the 15th, executed the pending withdrawal in its drain and returned at
\* line 153.
C20_Witness ==
    /\ DayOfMonth(clock) \notin WITHDRAWAL_DAYS
    /\ hist.outcome = "returned"
    /\ hist.at = "c153"
    /\ hist.drainExecs = 1
    /\ kv["last_withdrawal_check"] = StrOfDate(1)

\* C21: a candidate whose score is 0, the score of a backtest without
\* data, does not win a run of find_new_champion, so its windows do not
\* become the new rule set and no row with backtest_score 0 is inserted.
C21_NoDataScoreNeverWins ==
    tour.op = "tournament" =>
        /\ tour.winner.latest_performance # 0
        /\ \A n \in DOMAIN configurations :
               n > Len(tour.before) => configurations[n].backtest_score # 0

\* C22: in a run of find_new_champion on an empty (or null) recent or
\* historical frame, every backtest on the empty frame returns 0 without a
\* call of the signal generator, and the run still ends with a winner among
\* its candidates, the winner's windows as new_best_params, and its finish
\* event logged.
C22_EmptyDataRunCompletes ==
    (tour.op = "tournament" /\ (tour.recent_empty \/ tour.historical_empty)) =>
        /\ tour.recent_empty =>
               \A i \in DOMAIN tour.candidates :
                   tour.candidates[i].latest_performance = 0
        /\ tour.historical_empty => ChallengerOf(tour).backtest_score = 0
        /\ tour.signal_calls =
               (IF tour.recent_empty THEN 0 ELSE Len(tour.council) + 1)
                   + (IF tour.historical_empty THEN 0 ELSE 1)
        /\ \E i \in DOMAIN tour.candidates : tour.winner = tour.candidates[i]
        /\ tour.new_best_params =
               [trend_window |-> tour.winner.trend_window,
                momentum_window |-> tour.winner.momentum_window]
        /\ events["Refinement process started."] = tour.runs
        /\ events["Refinement process finished."] = tour.runs

\* C22 witness: a run with a council of at least two on an empty recent
\* frame and a historical frame with data.
C22_Witness ==
    /\ tour.op = "tournament"
    /\ tour.recent_empty
    /\ ~tour.historical_empty
    /\ Len(tour.council) >= 2
    /\ tour.signal_calls = 1
    /\ events["Refinement process finished."] = 1

\* the regime flag of period t: the trend line is defined and the btc
\* price is above it
C23_Regime(df, trend_window, t) ==
    /\ t >= trend_window
    /\ df.btc_price[t] * trend_window
           > SumOver(df.btc_price, t - trend_window + 1, t)
\* hold the asset of the largest momentum price[t] / price[t - w] - 1, btc
\* (the first column) when the two are equal
C23_HoldBest(df, w, t) ==
    IF df.eth_price[t] * df.btc_price[t - w] > df.btc_price[t] * df.eth_price[t - w]
    THEN "hold_eth" ELSE "hold_btc"
\* the scenario of the specification: btc prices 100, 102, 99, 105, 110
C23_Scenario ==
    [btc_price |-> <<100, 102, 99, 105, 110>>,
     eth_price |-> <<1, 1, 1, 1, 1>>]

\* C23 as stated: in every period the signal is to hold the best asset
\* exactly when the regime flag is true, and hold_usdt otherwise.
C23_BestAssetIffRegime ==
    (bt.scored # {} /\ FrameLen(bt.df) >= 1) =>
        \A t \in 1..FrameLen(bt.df) :
            IF C23_Regime(bt.df, bt.rules.trend_window, t)
            THEN /\ bt.signals[t] \in {"hold_btc", "hold_eth"}
                 /\ t > bt.rules.momentum_window =>
                        bt.signals[t] =
                            C23_HoldBest(bt.df, bt.rules.momentum_window, t)
            ELSE bt.signals[t] = "hold_usdt"

\* C23 amended: in every period after the first momentum_window ones the
\* signal is to hold the best asset exactly when the regime flag is true;
\* in the first momentum_window periods a true regime flag gives a missing
\* signal; a false regime flag gives hold_usdt in every period.  In the
\* scenario the flag is true in the last period and false in the third.
C23_BestAssetIffRegimeAndMomentum ==
    /\ in_market(C23_Scenario, 3, 5)
    /\ ~in_market(C23_Scenario, 3, 3)
    /\ (bt.scored # {} /\ FrameLen(bt.df) >= 1) =>
           \A t \in 1..FrameLen(bt.df) :
               IF C23_Regime(bt.df, bt.rules.trend_window, t)
               THEN IF t > bt.rules.momentum_window
                    THEN bt.signals[t] =
                             C23_HoldBest(bt.df, bt.rules.momentum_window, t)
                    ELSE bt.signals[t] = NaN
               ELSE bt.signals[t] = "hold_usdt"

\* C23 witness: a signal that holds eth in one period and, in another, btc
\* on equal momentum of the two assets.
C23_Witness ==
    /\ bt.scored # {}
    /\ \E t \in DOMAIN bt.signals : bt.signals[t] = "hold_eth"
    /\ \E t \in DOMAIN bt.signals :
           /\ bt.signals[t] = "hold_btc"
           /\ bt.df.eth_price[t] * bt.df.btc_price[t - bt.rules.momentum_window]
                  = bt.df.btc_price[t] * bt.df.eth_price[t - bt.rules.momentum_window]


\* the growth 1 + r over period t of the asset a signal names; 1 for the
\* stable asset and for a missing signal
C24_GrowthOf(df, sig, t) ==
    IF sig = "hold_btc" THEN Fraction(df.btc_price[t], df.btc_price[t - 1])
    ELSE IF sig = "hold_eth" THEN Fraction(df.eth_price[t], df.eth_price[t - 1])
    ELSE <<1, 1>>
\* the value of 1 after periods 1..t when period u > 1 applies the return
\* of the asset named by the signal of period u - 1 and period 1 none
RECURSIVE C24_ValueAfter(_, _, _)
C24_ValueAfter(df, signals, t) ==
    IF t <= 1 THEN <<1, 1>>
    ELSE FractionTimes(C24_ValueAfter(df, signals, t - 1),
                       C24_GrowthOf(df, signals[t - 1], t))

\* C24: the return applied to the portfolio in a period after the first is
\* the return over that period of the asset named by the signal of the
\* period before (zero for the stable asset), and the first period
\* contributes no return: the score is the product of exactly these growths.
C24_TradesOnPreviousSignal ==
    (bt.scored # {} /\ FrameLen(bt.df) >= 1) =>
        /\ \A s \in bt.scored :
               s.score = C24_ValueAfter(bt.df, bt.signals, FrameLen(bt.df))
        /\ \A t \in 2..FrameLen(bt.df) :
               PortfolioGrowth(bt.df, held_asset_signal(bt.signals), t)
                   = C24_GrowthOf(bt.df, bt.signals[t - 1], t)
        /\ PortfolioGrowth(bt.df, held_asset_signal(bt.signals), 1) = <<1, 1>>

\* C24 witness: a scored run in which a period's own signal is hold_usdt
\* while the signal of the period before names btc, whose price moves in
\* the period, so that the score is not 1.
C24_Witness ==
    /\ bt.scored # {}
    /\ \E t \in 2..FrameLen(bt.df) :
           /\ bt.signals[t - 1] = "hold_btc"
           /\ bt.signals[t] = "hold_usdt"
           /\ bt.df.btc_price[t] # bt.df.btc_price[t - 1]
    /\ \E s \in bt.scored : s.score # <<1, 1>>


(***************************************************************************)
(* Properties of two concurrent schedulers (checked under SpecConcurrent). *)
(***************************************************************************)
\* C25 as stated: as long as no invocation started while another was
\* running (a single scheduler), a pending withdrawal is executed at most
\* once.
C25_SingleSchedulerExecutesOnce ==
    ~hist.concurrent => hist.pendExecs <= 1

\* C25 amended: as long as no invocation started while another was running
\* and no invocation was interrupted by an exception, a pending withdrawal
\* is executed at most once.
C25_UninterruptedSingleSchedulerExecutesOnce ==
    (~hist.concurrent /\ hist.raised = 0) => hist.pendExecs <= 1

\* C25 witness: two invocations overlapped, none was interrupted, one
\* amount was pended and the same withdrawal has been executed twice.
C25_Witness ==
    /\ hist.concurrent
    /\ hist.raised = 0
    /\ Cardinality(hist.recognitions) = 1
    /\ hist.pendExecs = 2
    /\ Len(withdrawals) = 2
    /\ withdrawals[1] = withdrawals[2]


(***************************************************************************)
(* Properties of interrupted invocations (checked under Spec).             *)
(***************************************************************************)
\* C26: whatever an earlier interruption left in the store, an invocation
\* that starts with a pending amount and an address in the store, and is
\* not itself interrupted by a failing call, completes the drain: it
\* returns, and both pending keys are cleared.
C26_InterruptedDrainCompletes ==
    (/\ hist.outcome \in {"returned", "crashed"}
     /\ Truthy(hist.kv0["pending_withdrawal_amount_usd"])
     /\ Truthy(hist.kv0["user_withdrawal_address"])) =>
        /\ hist.outcome = "returned"
        /\ kv["pending_withdrawal_amount_usd"] = None
        /\ kv["pending_withdrawal_currency"] = None


(***************************************************************************)
(* Properties of an absent high-water mark (checked under Spec).           *)
(***************************************************************************)
\* C27: while the key high_water_mark is absent from the store, no step of
\* check_and_process_withdrawal writes it, executes a withdrawal or pends
\* one; a scheduled check whose read of the key succeeds then compares the
\* account value with itself and goes to the no-profit branch.
C27_AbsentHwmStaysAbsent ==
    [][kv["high_water_mark"] = None =>
          /\ kv'["high_water_mark"] = None
          /\ withdrawals' = <<>>
          /\ kv'["pending_withdrawal_amount_usd"] = None
          /\ kv'["pending_withdrawal_currency"] = None
          /\ (pc[1] = "c164" /\ pc'[1] \notin {"c164", "idle"}) =>
                 /\ pc'[1] = "c198"
                 /\ loc'[1].high_water_mark = loc[1].account_value]_vars

\* C27 witness: the key is still absent after scheduled checks on two days
\* completed, whatever account values they read, with no withdrawal.
C27_Witness ==
    /\ kv["high_water_mark"] = None
    /\ events["Check complete. No new profit above HWM."] >= 2
    /\ Cardinality(hist.stamped) >= 2
    /\ hist.raised = 0
    /\ withdrawals = <<>>

==========================================================================
